---- MODULE Spec2Model ----
(***************************************************************************)
(* PixelWiz background-task coordination layer                             *)
(* (src/src/core/threading_manager.py): ImageProcessingWorker,             *)
(* ThreadManager and BatchProcessor, with the interface thread's event     *)
(* loop that delivers the workers' queued signals.                         *)
(*                                                                         *)
(* A worker is a QThread.  Every signal it emits from run() is queued to   *)
(* the interface thread and handled there in emission order.  The          *)
(* interface thread runs one slot or one API call at a time; the only      *)
(* place it blocks for an unbounded time is QThread.wait().                *)
(* terminate() followed by wait() is modelled as an immediate kill: every  *)
(* step the thread could still take before dying is a WorkerStep taken     *)
(* before the call.  A worker whose last reference is overwritten while it *)
(* runs keeps running (its run() frame still references it).               *)
(***************************************************************************)
EXTENDS Integers, Sequences, FiniteSets, TLC

\* ---------------------------------------------------------------- bounds
\* The caller hands over at most MaxOps operations in all, a cancel call or
\* an empty batch counting as one.
MaxOps == 3

\* The same budget for the behaviours checked under fairness.
MaxLiveOps == 2

\* ------------------------------------------------------------- constants
None == 0

real_time_operations == {"brightness_contrast"}

KnownOps == {"rotate", "crop", "flip", "brightness_contrast", "sharpen",
             "add_noise", "blur", "filter", "resize"}

\* The requests the callers submit: an operation name and its keyword
\* arguments.  "odd"/"even" is blur's kernel_size (cv2.GaussianBlur raises
\* on an even size); "bogus" is a name _execute_operation does not know;
\* "unknown_method" is a sharpen method sharpen_image does not know.
Requests ==
    { [op |-> "blur", par |-> "odd"],
      [op |-> "blur", par |-> "even"],
      [op |-> "brightness_contrast", par |-> "ok"],
      [op |-> "bogus", par |-> "ok"],
      [op |-> "sharpen", par |-> "unknown_method"] }

\* An image is the list of operations applied to the loaded picture.
original_image == << >>

\* ---------------------------------------------------------------- state
VARIABLES
    owner,          \* who constructed this ThreadManager: "window" | "batch"
    is_processing,  \* ThreadManager.is_processing
    current_worker, \* ThreadManager.current_worker (worker id or None)
    operation_queue, \* ThreadManager.operation_queue
    workers,        \* every ImageProcessingWorker created so far
    queue,          \* signals queued to the interface thread, oldest first
    emitted,        \* per worker, its signals the ThreadManager has re-emitted
    notices,        \* the ThreadManager's own emissions (busy, cancelled)
    mainpc,         \* interface thread: "loop" | "wait" (in QThread.wait)
    lastcall,       \* the last process_image / cancel call and its return
    nops,           \* operations the caller has handed over so far
    win_image,      \* MainWindow.current_image
    operations_queue,        \* BatchProcessor.operations_queue
    current_image,           \* BatchProcessor.current_image
    current_operation_index, \* BatchProcessor.current_operation_index
    batch_log,      \* signals the BatchProcessor has emitted
    pixels,         \* the array handed to an ImageProcessor operation
    pixel_call,     \* that operation and its arguments
    pixel_out       \* what the operation returned

vars == << owner, is_processing, current_worker, operation_queue, workers,
           queue, emitted, notices,
           mainpc, lastcall, nops, win_image, operations_queue,
           current_image, current_operation_index, batch_log,
           pixels, pixel_call, pixel_out >>

\* The variables as one record, so that a slot can call another one.
St ==
    [ owner |-> owner, is_processing |-> is_processing,
      current_worker |-> current_worker,
      operation_queue |-> operation_queue, workers |-> workers,
      queue |-> queue, emitted |-> emitted, notices |-> notices,
      mainpc |-> mainpc,
      lastcall |-> lastcall, win_image |-> win_image,
      operations_queue |-> operations_queue,
      current_image |-> current_image,
      current_operation_index |-> current_operation_index,
      batch_log |-> batch_log ]

Becomes(s) ==
    /\ owner' = s.owner
    /\ is_processing' = s.is_processing
    /\ current_worker' = s.current_worker
    /\ operation_queue' = s.operation_queue
    /\ workers' = s.workers
    /\ queue' = s.queue
    /\ emitted' = s.emitted
    /\ notices' = s.notices
    /\ mainpc' = s.mainpc
    /\ lastcall' = s.lastcall
    /\ win_image' = s.win_image
    /\ operations_queue' = s.operations_queue
    /\ current_image' = s.current_image
    /\ current_operation_index' = s.current_operation_index
    /\ batch_log' = s.batch_log
    /\ UNCHANGED << pixels, pixel_call, pixel_out >>

\* ------------------------------------------------------------- signals
Sig(sig, w, num, txt, op, img) ==
    [ sig |-> sig, w |-> w, num |-> num, txt |-> txt, op |-> op, img |-> img ]

Progress(w, n) == Sig("progress", w, n, "", "", << >>)
Status(w, txt, op) == Sig("status", w, 0, txt, op, << >>)
Finished(w, img) == Sig("finished", w, 0, "", "", img)
Error(w, txt, op) == Sig("error", w, 0, txt, op, << >>)

\* --------------------------------------------- ImageProcessingWorker
\* _execute_operation: the result image, or an exception.
ExecuteOperation(req, image) ==
    IF req.op = "blur"
    THEN IF req.par = "even"
         THEN [ kind |-> "raise", img |-> << >> ]
         ELSE [ kind |-> "ok", img |-> Append(image, "blur") ]
    ELSE IF req.op = "brightness_contrast"
    THEN [ kind |-> "ok", img |-> Append(image, "brightness_contrast") ]
    ELSE IF req.op = "sharpen" /\ req.par = "unknown_method"
    THEN [ kind |-> "ok", img |-> image ]
    ELSE IF req.op \in KnownOps
    THEN [ kind |-> "ok", img |-> Append(image, req.op) ]
    ELSE [ kind |-> "raise", img |-> << >> ]

\* (the operation name left out of the message)
ErrorInUnnamed(w, operation) == Error(w, "Error in", "")

\* run(), the except branch: f"Error in {self.operation}: {str(e)}"
ErrorIn(w, operation) == Error(w, "Error in", operation)

\* (the two emits in the other order)
CompletedSwapped(w, operation) ==
    << Status(w, "completed successfully", operation), Progress(w, 100) >>

\* run(), when the result is not None and the operation is not real-time
Completed(w, operation) ==
    << Progress(w, 100), Status(w, "completed successfully", operation) >>

\* run(): the signals a worker emits, in order, when nothing stops it.
RunTrace(w, req, image) ==
    LET is_real_time == req.op \in real_time_operations
        chatter(s) == IF is_real_time THEN << >> ELSE s
        result == ExecuteOperation(req, image)
        start == chatter(<< Status(w, "Starting", req.op), Progress(w, 10) >>)
        exec == chatter(<< Progress(w, 30) >>)
    IN  IF result.kind = "raise"
        THEN start \o exec \o << ErrorIn(w, req.op) >>
        ELSE start \o exec
             \o chatter(<< Progress(w, 90), Status(w, "Finalizing", req.op) >>)
             \o IF result.kind = "ok"
                THEN chatter(Completed(w, req.op))
                     \o << Finished(w, result.img) >>
                ELSE << Error(w, "Failed to execute", req.op) >>

\* (no copy: run() reads the buffer the caller handed over)
TraceOfAliased(w) ==
    RunTrace(w, workers[w].req,
             IF owner = "batch" THEN current_image ELSE win_image)

\* run() works on self.image, the copy made in __init__.
TraceOf(w) == RunTrace(w, workers[w].req, workers[w].image)

\* (start() left out: the thread never runs)
NewWorkerNotStarted(req, image) ==
    [ req |-> req, image |-> image, pc |-> 0, st |-> "finished",
      killed |-> "no" ]

\* ImageProcessingWorker.__init__ followed by start()
NewWorker(req, image) ==
    [ req |-> req, image |-> image, pc |-> 0, st |-> "running",
      killed |-> "no" ]

isRunning(s, w) == s.workers[w].st = "running"

\* ----------------------------------------------------- BatchProcessor
BatchSig(sig, num, txt, op, img) ==
    [ sig |-> sig, num |-> num, txt |-> txt, op |-> op, img |-> img ]

\* _on_operation_error, connected to thread_manager.processing_error
OnOperationError(s, e) ==
    [ s EXCEPT !.batch_log =
        Append(@, BatchSig("batch_error", s.current_operation_index,
                           e.txt, e.op, << >>)) ]

\* ------------------------------------------------------ ThreadManager
\* What signal.emit(...) does on the interface thread: the emission is
\* recorded (under the worker it relays, or as the manager's own) and the
\* slots connected to the signal run before emit returns.
Recorded(s, e) ==
    IF e.w = None
    THEN [ s EXCEPT !.notices = Append(@, e) ]
    ELSE [ s EXCEPT !.emitted[e.w] = Append(@, e) ]

\* MainWindow.on_processing_error only shows the message.
EmitProcessingError(s, e) ==
    IF s.owner = "batch" THEN OnOperationError(Recorded(s, e), e)
    ELSE Recorded(s, e)

\* MainWindow.on_processing_status / on_processing_progress only display.
EmitProcessingStatus(s, e) == Recorded(s, e)

EmitProcessingProgress(s, e) == Recorded(s, e)

CancelledMessage == "Operation cancelled"

\* _cleanup_worker as called from cancel_current_operation: the worker has
\* been terminated, so quit() and wait() return at once.
CleanupTerminated(s) == [ s EXCEPT !.current_worker = None ]

\* (is_processing left set)
CancelStaysBusy(s, by) ==
    IF s.current_worker # None /\ isRunning(s, s.current_worker)
    THEN LET w == s.current_worker
             s1 == [ s EXCEPT !.workers[w].st = "terminated",
                              !.workers[w].killed = by ]
         IN  EmitProcessingStatus(CleanupTerminated(s1),
                                  Status(None, CancelledMessage, ""))
    ELSE s

\* cancel_current_operation; by is who asked ("caller" or "preempt").
CancelCurrentOperation(s, by) ==
    IF s.current_worker # None /\ isRunning(s, s.current_worker)
    THEN LET w == s.current_worker
             s1 == [ s EXCEPT !.workers[w].st = "terminated",
                              !.workers[w].killed = by ]
             s2 == CleanupTerminated(s1)
             s3 == [ s2 EXCEPT !.is_processing = FALSE ]
         IN  EmitProcessingStatus(s3, Status(None, CancelledMessage, ""))
    ELSE s

\* A call as its caller saw it: the n-th call, made while is_processing was
\* busy and current_worker was old; it returned ret and started worker new.
CallRecord(kind, n, req, busy, old, ret, new) ==
    [ kind |-> kind, n |-> n, req |-> req, busy |-> busy, old |-> old,
      ret |-> ret, new |-> new ]

NoRequest == [ op |-> "", par |-> "" ]

\* process_image(image, operation, **kwargs)
BusyMessage == "Another operation is already in progress"

\* (the busy check left out)
RejectsNothing(busy, operation) == FALSE

\* The request is turned away: the manager is busy and the operation is not
\* a real-time one.
Rejects(busy, operation) == busy /\ operation \notin real_time_operations

\* The request first cancels the current operation.
Preempts(busy, operation) == busy /\ operation \in real_time_operations

ProcessImage(s, image, req) ==
    LET busy == s.is_processing
        old == s.current_worker
        n == s.lastcall.n + 1
    IN  IF Rejects(busy, req.op)
        THEN LET s1 == EmitProcessingError(s, Error(None, BusyMessage, ""))
             IN  [ s1 EXCEPT !.lastcall =
                     CallRecord("process_image", n, req, busy, old, FALSE, None) ]
        ELSE LET s1 == IF Preempts(busy, req.op)
                       THEN CancelCurrentOperation(s, "preempt") ELSE s
                 w == Len(s1.workers) + 1
             IN  [ s1 EXCEPT !.workers = Append(@, NewWorker(req, image)),
                             !.emitted = Append(@, << >>),
                             !.current_worker = w,
                             !.is_processing = TRUE,
                             !.lastcall =
                                 CallRecord("process_image", n, req, busy, old,
                                            TRUE, w) ]

\* is_busy()
is_busy(s) == s.is_processing

\* --------------------------------------- BatchProcessor, continued
\* (the percentage of the steps done once this one is, not before it)
ProcessNextCountsThisStep(s) ==
    IF s.current_operation_index >= Len(s.operations_queue)
    THEN [ s EXCEPT !.batch_log =
             Append(@, BatchSig("batch_finished", 0, "", "", s.current_image)) ]
    ELSE LET operation == s.operations_queue[s.current_operation_index + 1]
             progress == ((s.current_operation_index + 1) * 100)
                             \div Len(s.operations_queue)
             s1 == [ s EXCEPT !.batch_log =
                       Append(@, BatchSig("batch_progress", progress,
                                          "Processing", operation.op, << >>)) ]
         IN  ProcessImage(s1, s1.current_image, operation)

\* _process_next_operation
ProcessNextOperation(s) ==
    IF s.current_operation_index >= Len(s.operations_queue)
    THEN [ s EXCEPT !.batch_log =
             Append(@, BatchSig("batch_finished", 0, "", "", s.current_image)) ]
    ELSE LET operation == s.operations_queue[s.current_operation_index + 1]
             progress == (s.current_operation_index * 100)
                             \div Len(s.operations_queue)
             s1 == [ s EXCEPT !.batch_log =
                       Append(@, BatchSig("batch_progress", progress,
                                          "Processing", operation.op, << >>)) ]
         IN  ProcessImage(s1, s1.current_image, operation)

\* _on_operation_finished, connected to thread_manager.processing_finished
OnOperationFinished(s, result) ==
    ProcessNextOperation(
        [ s EXCEPT !.current_image = result,
                   !.current_operation_index = @ + 1 ])

\* (current_image not set from the image handed over)
ProcessBatchKeepsImage(s, image, operations) ==
    LET s1 == [ s EXCEPT !.operations_queue = operations,
                         !.current_operation_index = 0 ]
    IN  IF operations = << >>
        THEN [ s1 EXCEPT !.batch_log =
                 Append(@, BatchSig("batch_finished", 0, "", "", s1.current_image)) ]
        ELSE ProcessNextOperation(s1)

\* process_batch(image, operations)
ProcessBatchCall(s, image, operations) ==
    LET s1 == [ s EXCEPT !.current_image = image,
                         !.operations_queue = operations,
                         !.current_operation_index = 0 ]
    IN  IF operations = << >>
        THEN [ s1 EXCEPT !.batch_log =
                 Append(@, BatchSig("batch_finished", 0, "", "", s1.current_image)) ]
        ELSE ProcessNextOperation(s1)

\* --------------------------------- ThreadManager, the queued slots
\* MainWindow.on_processing_finished shows the result and keeps it.
EmitProcessingFinished(s, e) ==
    LET s1 == Recorded(s, e)
    IN  IF s.owner = "batch"
        THEN OnOperationFinished(s1, e.img)
        ELSE [ s1 EXCEPT !.win_image = e.img ]

\* _cleanup_worker as called from the two slots: quit(), then wait(), which
\* returns only when the thread of current_worker has ended.
CleanupWorker(s) ==
    IF s.current_worker # None
    THEN IF isRunning(s, s.current_worker)
         THEN [ s EXCEPT !.mainpc = "wait" ]
         ELSE [ s EXCEPT !.current_worker = None ]
    ELSE s

\* (is_processing left set)
OnProcessingFinishedStaysBusy(s, e) ==
    CleanupWorker(EmitProcessingFinished(s, e))

\* _on_processing_finished(result)
OnProcessingFinished(s, e) ==
    CleanupWorker(
        EmitProcessingFinished([ s EXCEPT !.is_processing = FALSE ], e))

\* _on_processing_error(error_msg)
OnProcessingError(s, e) ==
    CleanupWorker(
        EmitProcessingError([ s EXCEPT !.is_processing = FALSE ], e))

\* ------------------------------------------------------------ actions
NoCall == CallRecord("none", 0, NoRequest, FALSE, None, FALSE, None)

\* No ImageProcessor operation has been applied directly.
NoPixelCall == [ name |-> "none" ]

Init ==
    /\ owner \in {"window", "batch"}
    /\ is_processing = FALSE
    /\ current_worker = None
    /\ operation_queue = << >>
    /\ workers = << >>
    /\ queue = << >>
    /\ emitted = << >>
    /\ notices = << >>
    /\ mainpc = "loop"
    /\ lastcall = NoCall
    /\ nops = 0
    /\ win_image = original_image
    /\ operations_queue = << >>
    /\ current_image = original_image
    /\ current_operation_index = 0
    /\ batch_log = << >>
    /\ pixels = << >>
    /\ pixel_call = NoPixelCall
    /\ pixel_out = << >>

\* The lists of operations handed to process_batch.
\* (one failing and two succeeding operations are enough there: a batch
\* treats every error alike, and every result alike)
BatchRequests ==
    Requests \ { [op |-> "blur", par |-> "even"],
                 [op |-> "sharpen", par |-> "unknown_method"] }

BatchLists(longest) ==
    UNION { [ 1..n -> BatchRequests ] : n \in 0..longest }

Cost(operations) == IF operations = << >> THEN 1 ELSE Len(operations)

\* (every edit, the slider included, submits current_image)
WindowSubmitsCurrent(req) ==
    /\ owner = "window"
    /\ mainpc = "loop"
    /\ nops < MaxOps
    /\ Becomes(ProcessImage(St, win_image, req))
    /\ nops' = nops + 1

\* A MainWindow edit: rotate_image, apply_blur, ... submit current_image,
\* update_brightness_contrast submits original_image.
WindowProcessImage(req) ==
    /\ owner = "window"
    /\ mainpc = "loop"
    /\ nops < MaxOps
    /\ LET image == IF req.op = "brightness_contrast"
                    THEN original_image ELSE win_image
       IN  Becomes(ProcessImage(St, image, req))
    /\ nops' = nops + 1

\* The caller calls cancel_current_operation().
CallerCancel ==
    /\ owner = "window"
    /\ mainpc = "loop"
    /\ nops < MaxOps
    /\ LET s == CancelCurrentOperation(St, "caller")
       IN  Becomes([ s EXCEPT !.lastcall =
                       CallRecord("cancel", lastcall.n + 1, NoRequest,
                                  is_processing, current_worker, FALSE, None) ])
    /\ nops' = nops + 1

\* The caller calls process_batch(image, operations).
ProcessBatch(operations) ==
    /\ owner = "batch"
    /\ mainpc = "loop"
    /\ nops + Cost(operations) <= MaxOps
    /\ Becomes(ProcessBatchCall(St, original_image, operations))
    /\ nops' = nops + Cost(operations)

\* One step of a worker thread: the next emit of run(), or the thread's end.
WorkerStep(w) ==
    /\ workers[w].st = "running"
    /\ IF workers[w].pc < Len(TraceOf(w))
       THEN /\ queue' = Append(queue, TraceOf(w)[workers[w].pc + 1])
            /\ workers' = [ workers EXCEPT ![w].pc = @ + 1 ]
       ELSE /\ workers' = [ workers EXCEPT ![w].st = "finished" ]
            /\ UNCHANGED queue
    /\ UNCHANGED << owner, is_processing, current_worker, operation_queue,
                    emitted, notices, mainpc,
                    lastcall, nops, win_image, operations_queue,
                    current_image, current_operation_index, batch_log,
                    pixels, pixel_call, pixel_out >>

\* The event loop hands the oldest queued signal to its slot.
Dequeued == [ St EXCEPT !.queue = Tail(queue) ]

DeliverProgress ==
    /\ mainpc = "loop"
    /\ queue # << >>
    /\ Head(queue).sig = "progress"
    /\ Becomes(EmitProcessingProgress(Dequeued, Head(queue)))
    /\ UNCHANGED nops

DeliverStatus ==
    /\ mainpc = "loop"
    /\ queue # << >>
    /\ Head(queue).sig = "status"
    /\ Becomes(EmitProcessingStatus(Dequeued, Head(queue)))
    /\ UNCHANGED nops

DeliverFinished ==
    /\ mainpc = "loop"
    /\ queue # << >>
    /\ Head(queue).sig = "finished"
    /\ Becomes(OnProcessingFinished(Dequeued, Head(queue)))
    /\ UNCHANGED nops

DeliverError ==
    /\ mainpc = "loop"
    /\ queue # << >>
    /\ Head(queue).sig = "error"
    /\ Becomes(OnProcessingError(Dequeued, Head(queue)))
    /\ UNCHANGED nops

\* wait() in _cleanup_worker returns: the thread has ended.
CleanupResume ==
    /\ mainpc = "wait"
    /\ ~ isRunning(St, current_worker)
    /\ current_worker' = None
    /\ mainpc' = "loop"
    /\ UNCHANGED << owner, is_processing, operation_queue, workers, queue,
                    emitted, notices, lastcall,
                    nops, win_image, operations_queue, current_image,
                    current_operation_index, batch_log,
                    pixels, pixel_call, pixel_out >>

Next ==
    \/ \E req \in Requests : WindowProcessImage(req)
    \/ CallerCancel
    \/ \E operations \in BatchLists(MaxOps - nops) : ProcessBatch(operations)
    \/ \E w \in 1..Len(workers) : WorkerStep(w)
    \/ DeliverProgress
    \/ DeliverStatus
    \/ DeliverFinished
    \/ DeliverError
    \/ CleanupResume

Spec == Init /\ [][Next]_vars

\* ------------------------------------------------------------- claims
IsBusy == is_busy(St)

Workers == 1..Len(workers)

\* A process_image call was made in this step (by the window, or by the
\* BatchProcessor from process_batch or from its finished slot).
Called == lastcall'.n # lastcall.n /\ lastcall'.kind = "process_image"

\* The caller called cancel_current_operation in this step.
Cancelled == lastcall'.n # lastcall.n /\ lastcall'.kind = "cancel"

\* The worker is inside run() and has not yet emitted its last signal.
Executing(w) ==
    workers[w].st = "running" /\ workers[w].pc < Len(TraceOf(w))

\* The finished / error signals of worker w still waiting in the queue.
PendingOutcomes(w) ==
    { i \in 1..Len(queue) :
        queue[i].w = w /\ queue[i].sig \in {"finished", "error"} }

\* The finished / error signals of worker w the manager has re-emitted.
Outcomes(w, sig) ==
    { i \in 1..Len(emitted[w]) : emitted[w][i].sig = sig }

\* C1: in every reachable state at most one worker is executing an
\* operation.
C1_AtMostOneExecuting ==
    Cardinality({ w \in Workers : Executing(w) }) <= 1

\* C2: process_image called on an idle manager, with any operation name,
\* returns true, makes is_busy() true and starts exactly one worker, which
\* runs that request.
C2_IdleSubmitStarts ==
    [][ (Called /\ ~ lastcall'.busy) =>
          /\ lastcall'.ret
          /\ IsBusy'
          /\ Len(workers') = Len(workers) + 1
          /\ current_worker' = Len(workers')
          /\ workers'[current_worker'].req = lastcall'.req
          /\ workers'[current_worker'].st = "running"
          /\ \A w \in Workers : workers'[w] = workers[w] ]_vars

\* C2 witness: an unknown operation name was accepted by an idle manager.
C2_Witness ==
    /\ lastcall.kind = "process_image"
    /\ ~ lastcall.busy
    /\ lastcall.ret
    /\ lastcall.req.op \notin KnownOps
    /\ is_processing
    /\ current_worker = lastcall.new
    /\ workers[current_worker].st = "running"

\* C3: process_image called with a non-real-time operation on a busy manager
\* returns false, emits one busy notification on the error channel, starts
\* no worker, queues nothing, and leaves is_processing, current_worker and
\* the in-flight operation with its pending signals as they were.
C3_BusyRejectChangesNothing ==
    [][ (Called /\ lastcall'.busy
           /\ lastcall'.req.op \notin real_time_operations) =>
          /\ ~ lastcall'.ret
          /\ notices' = Append(notices, Error(None, BusyMessage, ""))
          /\ workers' = workers
          /\ operation_queue' = operation_queue
          /\ is_processing' = is_processing
          /\ current_worker' = current_worker
          /\ queue' = queue
          /\ emitted' = emitted ]_vars

\* C3 witness: a non-real-time request was turned away while the operation
\* in flight is still running.
C3_Witness ==
    /\ lastcall.kind = "process_image"
    /\ lastcall.busy
    /\ ~ lastcall.ret
    /\ lastcall.req.op \notin real_time_operations
    /\ is_processing
    /\ current_worker # None
    /\ Executing(current_worker)
    /\ Len(notices) = 1

\* C4: process_image called with brightness_contrast on a busy manager
\* returns true, cancels the execution in flight and starts the new
\* request, which is then the only active one: no other worker runs and no
\* other worker's finished / error signal is still to be handled.
C4_RealTimePreempts ==
    [][ (Called /\ lastcall'.busy
           /\ lastcall'.req.op \in real_time_operations) =>
          /\ lastcall'.ret
          /\ IsBusy'
          /\ current_worker' = Len(workers')
          /\ workers'[current_worker'].req = lastcall'.req
          /\ \A w \in Workers :
               /\ workers'[w].st # "running"
               /\ \A i \in 1..Len(queue') :
                    queue'[i].w = w =>
                        queue'[i].sig \notin {"finished", "error"} ]_vars

\* C5: a non-real-time request that was turned away got a false return and
\* the busy notification; one that was accepted and is over (its worker has
\* stopped and none of its signals is waiting) has been answered by exactly
\* one result or error event, unless the caller cancelled it.
C5_NonRealTimeAlwaysAnswered ==
    /\ (lastcall.kind = "process_image" /\ ~ lastcall.ret) =>
          /\ notices # << >>
          /\ notices[Len(notices)] = Error(None, BusyMessage, "")
    /\ \A w \in Workers :
        ( /\ workers[w].req.op \notin real_time_operations
          /\ workers[w].st # "running"
          /\ workers[w].killed # "caller"
          /\ \A i \in 1..Len(queue) : queue[i].w # w )
        => Cardinality(Outcomes(w, "finished"))
             + Cardinality(Outcomes(w, "error")) = 1

\* The operation of worker w returns an image / raises.
Succeeds(w) ==
    ExecuteOperation(workers[w].req, workers[w].image).kind = "ok"

Fails(w) ==
    ExecuteOperation(workers[w].req, workers[w].image).kind = "raise"

\* run() of worker w returned without the thread being terminated.
RanToCompletion(w) == workers[w].st = "finished"

Pending(w, sig) ==
    { i \in PendingOutcomes(w) : queue[i].sig = sig }

\* The manager re-emitted a finished / error signal of worker w in this step.
Handled(w, sig) ==
    /\ w <= Len(emitted)
    /\ Cardinality(Outcomes(w, sig)') = Cardinality(Outcomes(w, sig)) + 1

\* C6: a worker that ran to successful completion gets processing_finished
\* exactly once (emitted, or still queued), carrying the image its operation
\* made, and no error event; and when a completion has been handled the
\* manager is idle, or busy only with a request that the handler's listener
\* submitted to the then idle manager.
C6_SuccessDeliveredOnce ==
    /\ [] \A w \in Workers :
            (RanToCompletion(w) /\ Succeeds(w)) =>
              /\ Cardinality(Outcomes(w, "finished"))
                   + Cardinality(Pending(w, "finished")) = 1
              /\ \A i \in Outcomes(w, "finished") :
                   emitted[w][i].img
                     = ExecuteOperation(workers[w].req, workers[w].image).img
              /\ Outcomes(w, "error") = {}
              /\ Pending(w, "error") = {}
    /\ [][ \A w \in Workers :
             Handled(w, "finished") =>
                 (~ IsBusy' \/ (Called /\ ~ lastcall'.busy)) ]_vars

\* C6 witness: a blur ran to completion, its result has been delivered and
\* the manager is idle again.
C6_Witness ==
    \E w \in Workers :
        /\ RanToCompletion(w)
        /\ workers[w].req.op = "blur"
        /\ Cardinality(Outcomes(w, "finished")) = 1
        /\ ~ is_processing
        /\ queue = << >>

\* C7: a worker whose operation fails (unknown name, bad parameters, an
\* exception) gets exactly one error event (emitted, or still queued) whose
\* message names the operation, and no result event; and when the error has
\* been handled the manager is idle.
C7_FailureReportedOnce ==
    /\ [] \A w \in Workers :
            (RanToCompletion(w) /\ Fails(w)) =>
              /\ Cardinality(Outcomes(w, "error"))
                   + Cardinality(Pending(w, "error")) = 1
              /\ \A i \in Outcomes(w, "error") :
                   emitted[w][i].op = workers[w].req.op
              /\ Outcomes(w, "finished") = {}
              /\ Pending(w, "finished") = {}
    /\ [][ \A w \in Workers : Handled(w, "error") => ~ IsBusy' ]_vars

\* C7 witness: an unknown operation failed, its error has been delivered and
\* the manager is idle again.
C7_Witness ==
    \E w \in Workers :
        /\ RanToCompletion(w)
        /\ workers[w].req.op \notin KnownOps
        /\ Cardinality(Outcomes(w, "error")) = 1
        /\ ~ is_processing
        /\ queue = << >>

\* Workers run and the event loop delivers: every thread that can take a
\* step takes it, and the interface thread handles what is queued.
Fairness ==
    /\ \A w \in 1..MaxLiveOps : WF_vars(w \in Workers /\ WorkerStep(w))
    /\ WF_vars(DeliverProgress)
    /\ WF_vars(DeliverStatus)
    /\ WF_vars(DeliverFinished)
    /\ WF_vars(DeliverError)
    /\ WF_vars(CleanupResume)

\* The caller stops after MaxLiveOps operations; the threads go on.
LiveNext ==
    \/ \E req \in Requests : nops < MaxLiveOps /\ WindowProcessImage(req)
    \/ nops < MaxLiveOps /\ CallerCancel
    \/ \E operations \in BatchLists(MaxLiveOps - nops) : ProcessBatch(operations)
    \/ \E w \in 1..Len(workers) : WorkerStep(w)
    \/ DeliverProgress
    \/ DeliverStatus
    \/ DeliverFinished
    \/ DeliverError
    \/ CleanupResume

FairSpec == Init /\ [][LiveNext]_vars /\ Fairness

\* C8: under fair scheduling a busy manager becomes idle again; and no
\* state has is_processing set with nothing left that would clear it (no
\* running worker and no finished / error signal waiting).
C8_BusyLeadsToIdle ==
    /\ is_processing ~> ~ is_processing
    /\ [] (is_processing =>
             \E w \in Workers :
                 workers[w].st = "running" \/ PendingOutcomes(w) # {})

\* C8 witness: the manager is busy after an error and a preemption, and the
\* preempted worker's signals are still waiting.
C8_Witness ==
    /\ is_processing
    /\ \E w \in Workers :
         workers[w].killed = "preempt" /\ PendingOutcomes(w) # {}

\* C9: cancel_current_operation on a busy manager terminates the execution,
\* leaves the manager idle with no worker held and emits 'Operation
\* cancelled' once; on an idle manager it changes nothing and emits nothing.
C9_CancelMakesIdle ==
    [][ Cancelled =>
          IF is_processing
          THEN /\ ~ IsBusy'
               /\ current_worker' = None
               /\ \A w \in Workers : workers'[w].st # "running"
               /\ notices' = Append(notices, Status(None, CancelledMessage, ""))
          ELSE UNCHANGED << is_processing, current_worker, workers, queue,
                            emitted, notices, operation_queue >> ]_vars

\* The events of a successful non-real-time request, in the documented order.
Documented(w) ==
    LET op == workers[w].req.op
    IN  << Status(w, "Starting", op), Progress(w, 10), Progress(w, 30),
           Progress(w, 90), Status(w, "Finalizing", op), Progress(w, 100),
           Status(w, "completed successfully", op),
           Finished(w, ExecuteOperation(workers[w].req, workers[w].image).img) >>

\* Progress 100 or the completed status of worker w has been emitted.
ReportedDone(w) ==
    \E i \in 1..Len(emitted[w]) :
        \/ emitted[w][i].sig = "progress" /\ emitted[w][i].num = 100
        \/ emitted[w][i].sig = "status"
             /\ emitted[w][i].txt = "completed successfully"

\* Worker w has stopped and none of its signals is waiting.
Over(w) ==
    /\ workers[w].st # "running"
    /\ \A i \in 1..Len(queue) : queue[i].w # w

\* The request's events come in the documented order, and its progress
\* values never decrease.
InDocumentedOrder(w) ==
    /\ Outcomes(w, "finished") # {} => emitted[w] = Documented(w)
    /\ \A i, j \in 1..Len(emitted[w]) :
         ( /\ i < j
           /\ emitted[w][i].sig = "progress"
           /\ emitted[w][j].sig = "progress" )
         => emitted[w][i].num <= emitted[w][j].num

\* C10 as stated: the events of a successful non-real-time request are
\* delivered in the documented order, progress never decreases, and
\* progress 100 and the completed status are emitted only for a request that
\* then delivers a result.
C10_OrderAndDoneOnlyWithResult ==
    \A w \in Workers :
        workers[w].req.op \notin real_time_operations =>
          /\ InDocumentedOrder(w)
          /\ (ReportedDone(w) /\ Over(w)) => Outcomes(w, "finished") # {}

\* C10 as amended: the same order and monotonic progress; progress 100 and
\* the completed status are emitted only for a request whose operation
\* returned an image, never for one that ends in error, and the result
\* follows them unless the worker is terminated first.
C10_OrderAndDoneOnlyOnSuccess ==
    \A w \in Workers :
        workers[w].req.op \notin real_time_operations =>
          /\ InDocumentedOrder(w)
          /\ ReportedDone(w) =>
               /\ Succeeds(w)
               /\ Outcomes(w, "error") = {}
               /\ Pending(w, "error") = {}
               /\ (Over(w) /\ workers[w].st # "terminated")
                    => Outcomes(w, "finished") # {}

\* C10 witness: every event of a successful blur has been delivered, the
\* result last.
C10_Witness ==
    \E w \in Workers :
        /\ workers[w].req.op = "blur"
        /\ emitted[w] = Documented(w)
        /\ Over(w)

\* A progress or status event.
IsChatter(e) == e.sig \in {"progress", "status"}

\* Worker w runs a real-time request whose result or error event has not
\* been emitted yet.
RealTimeInFlight(w) ==
    /\ workers[w].req.op \in real_time_operations
    /\ workers[w].st # "terminated"
    /\ Outcomes(w, "finished") = {}
    /\ Outcomes(w, "error") = {}

\* C11: from the submission of a real-time request (the submitting call
\* included, also when it preempts) until its result or error event, the
\* manager emits no progress event and no status event.
C11_RealTimeNoChatter ==
    [][ (\E w \in 1..Len(workers') : RealTimeInFlight(w)') =>
          /\ SelectSeq(notices', IsChatter) = SelectSeq(notices, IsChatter)
          /\ \A v \in Workers :
               SelectSeq(emitted'[v], IsChatter)
                 = SelectSeq(emitted[v], IsChatter) ]_vars

\* C12: every event on the error channel, the manager's own or a worker's
\* relayed one, names the operation it concerns.
C12_EveryErrorNamesOperation ==
    /\ \A i \in 1..Len(notices) :
         notices[i].sig = "error" => notices[i].op # ""
    /\ \A w \in Workers : \A i \in Outcomes(w, "error") :
         emitted[w][i].op = workers[w].req.op

\* C13: whenever the interface thread is inside wait() in _cleanup_worker,
\* the worker it waits for is not executing an operation any more.
C13_WaitOnlyOnEndedWorker ==
    mainpc = "wait" => ~ Executing(current_worker)

\* The buffer the caller handed to process_image for worker w, as it is now.
CallerBuffer(w) ==
    IF owner = "batch" THEN current_image
    ELSE IF workers[w].req.op = "brightness_contrast" THEN original_image
    ELSE win_image

\* The finished signals of worker w, waiting or re-emitted.
Results(w) ==
    { queue[i] : i \in Pending(w, "finished") }
        \cup { emitted[w][i] : i \in Outcomes(w, "finished") }

\* Worker w took a step of run().
Ran(w) == workers'[w].pc # workers[w].pc

\* C14: a worker holds the pixel values its buffer had when process_image
\* was called; its result is the operation applied to those values, whatever
\* has become of the caller's buffer since; and no step of a worker writes
\* the caller's buffers.
C14_WorksOnSnapshot ==
    /\ [][ (Called /\ lastcall'.ret) =>
             workers'[lastcall'.new].image =
                 IF owner = "batch" THEN current_image'
                 ELSE IF lastcall'.req.op = "brightness_contrast"
                 THEN original_image
                 ELSE win_image' ]_vars
    /\ [] \A w \in Workers : \A e \in Results(w) :
             e.img = ExecuteOperation(workers[w].req, workers[w].image).img
    /\ [][ \A w \in Workers :
             Ran(w) => UNCHANGED << win_image, current_image >> ]_vars

\* C14 witness: a worker has emitted its result, computed from its snapshot,
\* after the caller's buffer had been given other pixel values.
C14_Witness ==
    \E w \in Workers : \E i \in Pending(w, "finished") :
        /\ CallerBuffer(w) # workers[w].image
        /\ queue[i].img = Append(workers[w].image, workers[w].req.op)

\* The caller called process_batch in this step.
BatchCalled == owner = "batch" /\ nops' # nops

BatchFinished(img) == BatchSig("batch_finished", 0, "", "", img)

\* C15: process_batch(I, []) emits batch_finished once with the image I,
\* submits nothing to the manager and emits no batch_progress and no
\* batch_error; as long as only empty batches have been run, the events are
\* one batch_finished(I) per call.
C15_EmptyBatchYieldsInput ==
    /\ [][ (BatchCalled /\ operations_queue' = << >>) =>
             /\ batch_log' = Append(batch_log, BatchFinished(original_image))
             /\ current_image' = original_image
             /\ UNCHANGED << workers, queue, lastcall, is_processing,
                             current_worker, notices, emitted >> ]_vars
    /\ [] ((owner = "batch" /\ workers = << >>) =>
             /\ Len(batch_log) = nops
             /\ \A i \in 1..Len(batch_log) :
                  batch_log[i] = BatchFinished(original_image))

\* C15 witness: an empty batch was run after a batch that left its result in
\* the accumulator, and yielded the input image.
C15_Witness ==
    /\ owner = "batch"
    /\ operations_queue = << >>
    /\ \E w \in Workers : Outcomes(w, "finished") # {}
    /\ current_image = original_image
    /\ batch_log # << >>
    /\ batch_log[Len(batch_log)] = BatchFinished(original_image)

\* The BatchProcessor submitted a step from its finished slot in this step.
StepSubmitted ==
    owner = "batch" /\ ~ BatchCalled /\ Called /\ lastcall'.ret

\* C16: step i >= 1 of a batch is submitted only when the result of step
\* i-1 has just been received; it is the next step of the list; and no
\* other step is in flight then.
C16_StepsStrictlySequential ==
    [][ StepSubmitted =>
          /\ current_operation_index' = current_operation_index + 1
          /\ lastcall'.req = operations_queue'[current_operation_index' + 1]
          /\ \E w \in Workers :
               /\ Handled(w, "finished")
               /\ workers[w].req = operations_queue'[current_operation_index']
          /\ \A w \in Workers : ~ Executing(w) ]_vars

\* The names of the operations of a batch, in order.
OpNames(operations) == [ i \in 1..Len(operations) |-> operations[i].op ]

\* Every operation of the list returns an image.
AllSucceed(operations) ==
    \A i \in 1..Len(operations) :
        ExecuteOperation(operations[i], original_image).kind = "ok"

\* C17: every batch_finished emitted for a non-empty list of operations that
\* all succeed carries opn(...op1(I)) (no step was turned away and none
\* failed: no batch_error has been emitted).
C17_BatchEqualsChain ==
    [][ \A i \in (Len(batch_log) + 1)..Len(batch_log') :
          ( /\ batch_log'[i].sig = "batch_finished"
            /\ operations_queue' # << >>
            /\ AllSucceed(operations_queue')
            /\ \A j \in 1..Len(batch_log') :
                 batch_log'[j].sig # "batch_error" )
          => batch_log'[i].img = original_image \o OpNames(operations_queue')
      ]_vars

\* C18: when a step's worker reports an error, one batch_error is emitted
\* that names the index of that step and carries the worker's message; and
\* once the batch_error of a failed step has been emitted, nothing more is
\* submitted or emitted until the next process_batch call.
C18_ErrorAbortsBatch ==
    /\ [][ \A w \in Workers :
             (owner = "batch" /\ Handled(w, "error")) =>
               /\ current_operation_index < Len(operations_queue)
               /\ operations_queue[current_operation_index + 1] = workers[w].req
               /\ batch_log' =
                    Append(batch_log,
                           BatchSig("batch_error", current_operation_index,
                                    "Error in", workers[w].req.op, << >>)) ]_vars
    /\ [][ ( /\ owner = "batch"
             /\ ~ BatchCalled
             /\ batch_log # << >>
             /\ batch_log[Len(batch_log)].sig = "batch_error"
             /\ batch_log[Len(batch_log)].txt = "Error in" )
           => (~ Called /\ batch_log' = batch_log) ]_vars

\* C19: current_image changes only in a process_batch call or when a result
\* is delivered, and when a result is delivered (the accumulator is written,
\* then read for the next step) no step is in flight.
C19_AccumulatorQuiescent ==
    [][ /\ current_image' # current_image =>
             (BatchCalled \/ \E w \in Workers : Handled(w, "finished"))
        /\ (owner = "batch" /\ \E w \in Workers : Handled(w, "finished")) =>
             \A v \in Workers : ~ Executing(v) ]_vars

IsBatchProgress(e) == e.sig = "batch_progress"

\* The batch_progress events emitted so far / in this step.
ProgressLog == SelectSeq(batch_log, IsBatchProgress)

NewProgress == SubSeq(ProgressLog', Len(ProgressLog) + 1, Len(ProgressLog'))

MaxDim == 2

PixelValues == {15, 200}

Array(h, w, at) == [ h |-> h, w |-> w, at |-> at ]

Images ==
    UNION { { Array(h, w, at) : at \in [ 1..h -> [ 1..w -> PixelValues ] ] } :
            h \in 1..MaxDim, w \in 1..MaxDim }

Max(a, b) == IF a >= b THEN a ELSE b

Min(a, b) == IF a <= b THEN a ELSE b

\* Python's a[start:stop] on an axis of length n: a negative bound counts
\* from the end, and both are clipped to 0..n.  The axis keeps the elements
\* SliceLow+1 .. SliceHigh (counted from 1), none if that range is empty.
SliceBound(i, n) == IF i < 0 THEN Max(i + n, 0) ELSE Min(i, n)

\* crop_image(image, x, y, width, height)
CropImage(image, x, y, width, height) ==
    LET x1 == Max(0, Min(x, image.w))
        y1 == Max(0, Min(y, image.h))
        width1 == Min(width, image.w - x1)
        height1 == Min(height, image.h - y1)
        rlo == SliceBound(y1, image.h)
        rhi == SliceBound(y1 + height1, image.h)
        clo == SliceBound(x1, image.w)
        chi == SliceBound(x1 + width1, image.w)
        nh == Max(rhi - rlo, 0)
        nw == Max(chi - clo, 0)
    IN  Array(nh, nw,
              [ r \in 1..nh |-> [ c \in 1..nw |-> image.at[rlo + r][clo + c] ] ])

\* cv2.rotate(image, cv2.ROTATE_90_CLOCKWISE)
Rotate90Clockwise(image) ==
    Array(image.w, image.h,
          [ r \in 1..image.w |->
              [ c \in 1..image.h |-> image.at[image.h + 1 - c][r] ] ])

\* cv2.rotate(image, cv2.ROTATE_180)
Rotate180(image) ==
    Array(image.h, image.w,
          [ r \in 1..image.h |->
              [ c \in 1..image.w |->
                  image.at[image.h + 1 - r][image.w + 1 - c] ] ])

\* cv2.rotate(image, cv2.ROTATE_90_COUNTERCLOCKWISE)
Rotate90CounterClockwise(image) ==
    Array(image.w, image.h,
          [ r \in 1..image.w |->
              [ c \in 1..image.h |-> image.at[c][image.w + 1 - r] ] ])

\* The arbitrary-angle branch for an angle whose rotation matrix is the
\* identity (0): the canvas keeps its size, and the matrix is shifted by
\* new_w / 2 - w // 2 and new_h / 2 - h // 2, half a pixel on an axis of odd
\* length.  cv2.warpAffine then reads every output pixel half a pixel before
\* its own place: the rounded mean of the neighbours, 0 outside the image.
WarpIdentity(image) ==
    LET dx == image.w % 2
        dy == image.h % 2
        src(r, c) == IF r \in 1..image.h /\ c \in 1..image.w
                     THEN image.at[r][c] ELSE 0
        mean(r, c) ==
            ( src(r - dy, c - dx) + src(r - dy, c) + src(r, c - dx) + src(r, c)
              + 2 ) \div 4
    IN  Array(image.h, image.w,
              [ r \in 1..image.h |-> [ c \in 1..image.w |-> mean(r, c) ] ])

\* (every axis-aligned angle taken as a half turn)
RotateAlwaysHalfTurn(image, angle) == Rotate180(image)

\* rotate_image(image, angle), for the angles 0, 90, 180 and 270
RotateImage(image, angle) ==
    IF angle = 90 THEN Rotate90Clockwise(image)
    ELSE IF angle = 180 THEN Rotate180(image)
    ELSE IF angle = 270 THEN Rotate90CounterClockwise(image)
    ELSE WarpIdentity(image)

\* (a quarter turn instead of a mirror image)
FlipAsQuarterTurn(image, horizontal) == Rotate90Clockwise(image)

\* flip_image(image, horizontal): cv2.flip(image, 1) or cv2.flip(image, 0)
FlipImage(image, horizontal) ==
    IF horizontal
    THEN Array(image.h, image.w,
               [ r \in 1..image.h |->
                   [ c \in 1..image.w |-> image.at[r][image.w + 1 - c] ] ])
    ELSE Array(image.h, image.w,
               [ r \in 1..image.h |->
                   [ c \in 1..image.w |-> image.at[image.h + 1 - r][c] ] ])

\* astype(np.uint8) of a float given as twice its value: the fraction is
\* dropped and the integer kept modulo 2^8.
AsUint8(twice) ==
    (IF twice >= 0 THEN twice \div 2 ELSE - ((- twice) \div 2)) % 256

\* np.clip(adjusted, 0, 255), on twice the value
Clip(twice) == IF twice < 0 THEN 0 ELSE IF twice > 510 THEN 510 ELSE twice

\* (np.clip left out)
AdjustNoClip(image, brightness, contrast2) ==
    Array(image.h, image.w,
          [ r \in 1..image.h |->
              [ c \in 1..image.w |->
                  AsUint8(image.at[r][c] * contrast2 + 2 * brightness) ] ])

\* adjust_brightness_contrast(image, brightness, contrast), the contrast
\* given in halves (contrast2 = 2 * contrast) to keep the arithmetic exact
AdjustBrightnessContrast(image, brightness, contrast2) ==
    Array(image.h, image.w,
          [ r \in 1..image.h |->
              [ c \in 1..image.w |->
                  AsUint8(Clip(image.at[r][c] * contrast2 + 2 * brightness)) ] ])

\* ------------------------ one operation applied to the loaded image
CropArgs == {-1, 0, 1, 3}

Angles == {0, 90, 180, 270}

Brightnesses == {-100, 0, 7, 100}

Contrasts2 == {0, 1, 2, 3}

ManagerUnchanged ==
    UNCHANGED << owner, is_processing, current_worker, operation_queue,
                 workers, queue, emitted, notices, mainpc, lastcall, nops,
                 win_image, operations_queue, current_image,
                 current_operation_index, batch_log >>

\* An image has been loaded; no request has been made.
PixelInit ==
    /\ owner = "window"
    /\ is_processing = FALSE
    /\ current_worker = None
    /\ operation_queue = << >>
    /\ workers = << >>
    /\ queue = << >>
    /\ emitted = << >>
    /\ notices = << >>
    /\ mainpc = "loop"
    /\ lastcall = NoCall
    /\ nops = 0
    /\ win_image = original_image
    /\ operations_queue = << >>
    /\ current_image = original_image
    /\ current_operation_index = 0
    /\ batch_log = << >>
    /\ pixels \in Images
    /\ pixel_call = NoPixelCall
    /\ pixel_out = << >>

Crop(x, y, width, height) ==
    /\ pixel_call = NoPixelCall
    /\ pixel_call' = [ name |-> "crop", x |-> x, y |-> y,
                       width |-> width, height |-> height ]
    /\ pixel_out' = CropImage(pixels, x, y, width, height)
    /\ UNCHANGED pixels
    /\ ManagerUnchanged

Rotate(angle) ==
    /\ pixel_call = NoPixelCall
    /\ pixel_call' = [ name |-> "rotate", angle |-> angle ]
    /\ pixel_out' = RotateImage(pixels, angle)
    /\ UNCHANGED pixels
    /\ ManagerUnchanged

\* rotate by the angle, then by the inverse angle
RotateAndBack(angle) ==
    /\ pixel_call = NoPixelCall
    /\ pixel_call' = [ name |-> "rotate_and_back", angle |-> angle ]
    /\ pixel_out' = RotateImage(RotateImage(pixels, angle), (360 - angle) % 360)
    /\ UNCHANGED pixels
    /\ ManagerUnchanged

FlipTwice(horizontal) ==
    /\ pixel_call = NoPixelCall
    /\ pixel_call' = [ name |-> "flip_twice", horizontal |-> horizontal ]
    /\ pixel_out' = FlipImage(FlipImage(pixels, horizontal), horizontal)
    /\ UNCHANGED pixels
    /\ ManagerUnchanged

Adjust(brightness, contrast2) ==
    /\ pixel_call = NoPixelCall
    /\ pixel_call' = [ name |-> "brightness_contrast",
                       brightness |-> brightness, contrast2 |-> contrast2 ]
    /\ pixel_out' = AdjustBrightnessContrast(pixels, brightness, contrast2)
    /\ UNCHANGED pixels
    /\ ManagerUnchanged

PixelNext ==
    \/ \E x, y, width, height \in CropArgs : Crop(x, y, width, height)
    \/ \E angle \in Angles : Rotate(angle)
    \/ \E angle \in Angles : RotateAndBack(angle)
    \/ \E horizontal \in BOOLEAN : FlipTwice(horizontal)
    \/ \E brightness \in Brightnesses, contrast2 \in Contrasts2 :
           Adjust(brightness, contrast2)

PixelSpec == PixelInit /\ [][PixelNext]_vars

\* C21: crop_image returns an image no wider than the requested width (an
\* empty one when that width is negative) and no wider than the image, and
\* likewise no higher, for every x, y, width and height.
C21_CropWithinBounds ==
    pixel_call.name = "crop" =>
        /\ pixel_out.w <= Max(pixel_call.width, 0)
        /\ pixel_out.w <= pixels.w
        /\ pixel_out.h <= Max(pixel_call.height, 0)
        /\ pixel_out.h <= pixels.h

\* C22: rotating by 0, 90, 180 or 270 and then by the inverse angle gives
\* back an image of the same width and height with the same pixels.
C22_RotateAndBackIsIdentity ==
    pixel_call.name = "rotate_and_back" => pixel_out = pixels

\* C23: rotate_image by 90 or 270 swaps width and height, by 180 keeps them.
C23_RotateDimensions ==
    pixel_call.name = "rotate" =>
        /\ pixel_call.angle \in {90, 270} =>
               pixel_out.w = pixels.h /\ pixel_out.h = pixels.w
        /\ pixel_call.angle = 180 =>
               pixel_out.w = pixels.w /\ pixel_out.h = pixels.h

\* C23 witness: an image wider than high has been rotated by 90.
C23_Witness ==
    /\ pixel_call.name = "rotate"
    /\ pixel_call.angle = 90
    /\ pixels.w > pixels.h
    /\ pixel_out.h = pixels.w
    /\ pixel_out.w = pixels.h

\* C24: flipping twice along the same axis gives back the image, pixel for
\* pixel, for the horizontal and for the vertical flip.
C24_FlipTwiceIsIdentity ==
    pixel_call.name = "flip_twice" => pixel_out = pixels

\* C24 witness: an image that one horizontal flip changes has been flipped
\* twice.
C24_Witness ==
    /\ pixel_call.name = "flip_twice"
    /\ pixel_call.horizontal
    /\ FlipImage(pixels, TRUE) # pixels
    /\ pixel_out = pixels

\* clamp(p * c + b, 0, 255) with the fraction dropped, c given in halves.
Clamped(p, brightness, contrast2) ==
    LET twice == p * contrast2 + 2 * brightness
    IN  IF twice < 0 THEN 0 ELSE IF twice >= 510 THEN 255 ELSE twice \div 2

C26_SliderAppliesToOriginal ==
    [][ owner = "window" =>
          /\ (Called /\ lastcall'.req.op = "brightness_contrast") =>
               /\ lastcall'.ret
               /\ workers'[lastcall'.new].image = original_image
          /\ \A w \in Workers :
               ( /\ workers[w].req.op = "brightness_contrast"
                 /\ Handled(w, "finished") )
               => win_image' =
                    ExecuteOperation(workers[w].req, original_image).img
      ]_vars

\* C26 witness: a blur had been applied and shown; then the slider's result
\* was delivered and the image shown is the adjusted original.
C26_Witness ==
    /\ owner = "window"
    /\ win_image = << "brightness_contrast" >>
    /\ \E v, w \in Workers :
         /\ v < w
         /\ workers[v].req.op = "blur"
         /\ Outcomes(v, "finished") # {}
         /\ workers[w].req.op = "brightness_contrast"
         /\ workers[w].image = original_image
         /\ Outcomes(w, "finished") # {}

\* A known operation asked for with a parameter outside the accepted set.
BadParameter(req) ==
    req.op \in KnownOps /\ req.par \in {"even", "unknown_method"}

\* C27: a request for a known operation with a parameter outside the
\* accepted set never gets a result event, and once its worker has run to
\* completion it has got an error event.
C27_BadParameterIsAnError ==
    \A w \in Workers :
        BadParameter(workers[w].req) =>
          /\ Outcomes(w, "finished") = {}
          /\ Pending(w, "finished") = {}
          /\ RanToCompletion(w) =>
               Cardinality(Outcomes(w, "error"))
                 + Cardinality(Pending(w, "error")) = 1

\* C28: whenever is_processing is set, current_worker holds a worker.
C28_BusyHoldsWorker ==
    is_processing => current_worker # None

\* C29: no finished or error signal of a worker that was terminated (by
\* cancel_current_operation or by a preemption) is handled afterwards.
C29_NoSignalAfterCancel ==
    [][ \A w \in Workers :
          workers[w].killed # "no" =>
              ~ Handled(w, "finished") /\ ~ Handled(w, "error") ]_vars

\* batch_finished or batch_error
IsTerminal(e) == e.sig \in {"batch_finished", "batch_error"}

\* The last event the BatchProcessor emitted ends a run.
BatchEnded == batch_log # << >> /\ IsTerminal(batch_log[Len(batch_log)])

\* C30: under fair scheduling every process_batch call is followed by a
\* terminal event, and after a terminal event nothing is dispatched and no
\* further event is emitted until the next call.
C30_OneTerminalEventPerBatch ==
    /\ (owner = "batch" /\ nops > 0) ~> BatchEnded
    /\ [][ (owner = "batch" /\ ~ BatchCalled /\ BatchEnded) =>
             (~ Called /\ batch_log' = batch_log) ]_vars

====
